---- MODULE Spec2Model ----
(***************************************************************************)
(* A model of production_backend.py: the in-memory workflow store          *)
(* (workflows_storage), the four request handlers that touch it or         *)
(* classify a field selector, and the interleavings of those handlers      *)
(* when the threaded development server runs them on several threads.      *)
(*                                                                         *)
(* Representation of Python values:                                        *)
(*   - a dict is a function from its keys (strings) to its values;         *)
(*   - a JSON value whose type the code does not check is tagged:          *)
(*     [t |-> "dict", v |-> d], [t |-> "str", s |-> x], [t |-> "null"];    *)
(*   - a list is a sequence; a str that the code only compares or stores   *)
(*     is a string, and a str the code searches (the field selector) is a  *)
(*     sequence of one-character strings;                                  *)
(*   - avg_steps is held in tenths (40 stands for 4.0).                    *)
(***************************************************************************)
EXTENDS Integers, Sequences, FiniteSets, TLC

VARIABLES
    workflows_storage,  \* the module-level list of stored workflow dicts
    clock,              \* the instant the next datetime.utcnow() returns
    request,            \* the request last handled to completion
    response,           \* the response the handler returned for it
    threads             \* the handler threads in flight (concurrent runs)

vars == <<workflows_storage, clock, request, response, threads>>

(***************************************************************************)
(* Bounds of the model.                                                    *)
(***************************************************************************)
MaxStore == 3
MaxRecentStore == 12
MaxPopularStore == 8
MaxPieces == 2
NThreads == 2
MaxConcStore == 2

(***************************************************************************)
(* Python helpers.                                                         *)
(***************************************************************************)
EmptyDict == [k \in {} |-> k]

JNull == [t |-> "null"]

JDict(d) == [t |-> "dict", v |-> d]

JStr(x) == [t |-> "str", s |-> x]

\* d.get(k, default)
Get(d, k, default) == IF k \in DOMAIN d THEN d[k] ELSE default

\* d[k] = v
SetItem(d, k, v) == [x \in DOMAIN d \cup {k} |-> IF x = k THEN v ELSE d[x]]

Min(a, b) == IF a <= b THEN a ELSE b

Max(a, b) == IF a >= b THEN a ELSE b

\* datetime.isoformat(): the text of an instant
isoformat(t) == "T" \o ToString(t)

Ok(body) == [status |-> 200, body |-> body]

Error(status, body) == [status |-> status, body |-> body]

(***************************************************************************)
(* save_workflow                                                           *)
(***************************************************************************)
\* line 49: not data or 'workflow' not in data
InvalidRequestData(data) ==
    \/ data.t = "null"
    \/ data.t = "dict" /\ data.v = EmptyDict
    \/ data.t = "dict" /\ "workflow" \notin DOMAIN data.v

\* line 55: item assignment on data['workflow'] raises TypeError unless it is a dict
ItemAssignmentRaises(data) == data.v["workflow"].t # "dict"

AssignId_LenOnly(storage) == ToString(Len(storage))

\* line 55: str(len(workflows_storage) + 1)
AssignId(storage) == ToString(Len(storage) + 1)

SourceOf_AlwaysDefault(data) == "chrome_extension"

\* line 57: data.get('source', 'chrome_extension')
SourceOf(data) == Get(data.v, "source", "chrome_extension")

\* lines 52-57: workflow_data after the three assignments
Stamp(data, id, now) ==
    SetItem(SetItem(SetItem(data.v["workflow"].v, "id", id),
                    "saved_at", isoformat(now)),
            "source", SourceOf(data))

StorePrepend(storage, w) == <<w>> \o storage

\* line 60: workflows_storage.append(workflow_data)
StoreAppend(storage, w) == Append(storage, w)

\* w.get('metadata', {})
MetadataOf(w) == Get(w, "metadata", JDict(EmptyDict))

\* w.get('metadata', {}).get(...) raises AttributeError unless metadata is a dict
MetadataRaises(w) == MetadataOf(w).t # "dict"

\* w.get('metadata', {}).get('domain', default)
DomainOr(w, default) == Get(MetadataOf(w).v, "domain", default)

\* lines 62-76: the log line, then the success response; an exception raised
\* by the log line is caught and answered with 500
SaveRespond(w) ==
    IF MetadataRaises(w)
    THEN Error(500, [error |-> "Failed to save workflow", details |-> "AttributeError"])
    ELSE Ok([success |-> TRUE, workflow_id |-> w["id"],
             message |-> "Workflow saved successfully"])

\* lines 46-76 run without interruption: the new store, clock and response
save_workflow(storage, now, data) ==
    IF InvalidRequestData(data)
    THEN [storage |-> storage, clock |-> now,
          response |-> Error(400, [error |-> "Invalid request data"])]
    ELSE IF ItemAssignmentRaises(data)
    THEN [storage |-> storage, clock |-> now,
          response |-> Error(500, [error |-> "Failed to save workflow",
                                   details |-> "TypeError"])]
    ELSE LET w == Stamp(data, AssignId(storage), now)
         IN  [storage |-> StoreAppend(storage, w), clock |-> now + 1,
              response |-> SaveRespond(w)]

(***************************************************************************)
(* get_analytics                                                           *)
(***************************************************************************)
RecentLimit == 10

PopularLimit == 5

\* line 83 and line 87: request.args.get('domain') is truthy
HasDomainFilter(args) == "domain" \in DOMAIN args /\ args["domain"] # ""

\* line 88-89: w.get('metadata', {}).get('domain') == domain; the inner get
\* has no default, so a workflow without a domain yields None, equal to no str
DomainMatches(w, domain) ==
    /\ "domain" \in DOMAIN MetadataOf(w).v
    /\ MetadataOf(w).v["domain"] = domain

RECURSIVE SelectSeq2(_, _)
\* [w for w in storage if DomainMatches(w, domain)]
SelectSeq2(storage, domain) ==
    IF storage = <<>> THEN <<>>
    ELSE LET rest == SelectSeq2(Tail(storage), domain)
         IN  IF DomainMatches(Head(storage), domain)
             THEN <<Head(storage)>> \o rest ELSE rest

\* lines 86-89: the list the rest of the handler reads
filtered_workflows(storage, args) ==
    IF HasDomainFilter(args) THEN SelectSeq2(storage, args["domain"]) ELSE storage

\* a loop over S that evaluates w.get('metadata', {}).get(...) raises on S
AnyMetadataRaises(S) == \E i \in DOMAIN S : MetadataRaises(S[i])

\* line 92
total_workflows(S) == Len(S)

\* lines 93-94
unique_domains(S) == Cardinality({DomainOr(S[i], "unknown") : i \in DOMAIN S})

\* len(w.get('steps', []))
StepCount(w) == Len(Get(w, "steps", <<>>))

RECURSIVE SumSteps(_)
\* line 98: sum(len(w.get('steps', [])) for w in S)
SumSteps(S) == IF S = <<>> THEN 0 ELSE StepCount(Head(S)) + SumSteps(Tail(S))

\* line 115: round(total / n, 1), in tenths.  A tie (20 * total / n an odd
\* integer) goes to the even tenth; for n < 20 every tie is a multiple of a
\* quarter, which a float holds exactly, so round() sees the tie as one.
Round1(total, n) ==
    LET q == (10 * total) \div n
        r == (10 * total) % n
    IN  IF 2 * r < n THEN q
        ELSE IF 2 * r > n THEN q + 1
        ELSE IF q % 2 = 0 THEN q ELSE q + 1

\* lines 97-99: total is the count taken at line 92, S the list as lines
\* 97-98 find it; the division raises ZeroDivisionError when S is non-empty
\* and the count is 0
AvgRaises(S, total) == S # <<>> /\ total = 0

\* lines 96-99 and 115, where the division does not raise
avg_steps(S, total) == IF S = <<>> THEN 0 ELSE Round1(SumSteps(S), total)

RECURSIVE DomainKeys(_, _)
\* lines 102-105: the keys of domain_counts, in the order the loop inserts them
DomainKeys(S, seen) ==
    IF S = <<>> THEN <<>>
    ELSE LET d == DomainOr(Head(S), "unknown")
         IN  IF d \in seen THEN DomainKeys(Tail(S), seen)
             ELSE <<d>> \o DomainKeys(Tail(S), seen \cup {d})

\* lines 102-105: the value domain_counts holds for d
DomainCount(S, d) == Cardinality({i \in DOMAIN S : DomainOr(S[i], "unknown") = d})

\* lines 102-105: domain_counts.items()
domain_counts(S) ==
    LET keys == DomainKeys(S, {})
    IN  [i \in DOMAIN keys |-> [domain |-> keys[i], count |-> DomainCount(S, keys[i])]]

RECURSIVE InsertByCount(_, _)
\* x goes behind every item whose count is at least x's
InsertByCount(sorted, x) ==
    IF sorted = <<>> THEN <<x>>
    ELSE IF Head(sorted).count >= x.count
         THEN <<Head(sorted)>> \o InsertByCount(Tail(sorted), x)
         ELSE <<x>> \o sorted

RECURSIVE SortedFrom(_, _)
SortedFrom(items, acc) ==
    IF items = <<>> THEN acc
    ELSE SortedFrom(Tail(items), InsertByCount(acc, Head(items)))

SortByCount_Unsorted(items) == items

\* line 109: sorted(items, key=lambda x: x[1], reverse=True); the sort is
\* stable, and reverse=True keeps items of equal count in their given order
SortByCount(items) == SortedFrom(items, <<>>)

\* lines 107-110: the first five of the sorted items
popular_domains(S) ==
    LET sorted == SortByCount(domain_counts(S))
    IN  SubSeq(sorted, 1, Min(PopularLimit, Len(sorted)))

\* lines 118-123: one entry of recent_activity
Projection(w) ==
    [name |-> Get(w, "name", "Unnamed Workflow"),
     domain |-> DomainOr(w, "unknown"),
     steps |-> StepCount(w),
     created_at |-> Get(w, "saved_at", "unknown")]

RecentWindow_First(S) == SubSeq(S, 1, Min(RecentLimit, Len(S)))

\* line 124: S[-10:]
RecentWindow(S) == SubSeq(S, Max(1, Len(S) - RecentLimit + 1), Len(S))

\* lines 117-125
recent_activity(S) ==
    LET last == RecentWindow(S)
    IN  [i \in DOMAIN last |-> Projection(last[i])]

AnalyticsError(details) ==
    Error(500, [error |-> "Failed to get analytics", details |-> details])

\* lines 82-135 run without interruption
get_analytics(storage, args) ==
    IF AnyMetadataRaises(storage) THEN AnalyticsError("AttributeError")
    ELSE LET S == filtered_workflows(storage, args)
         IN  Ok([total_workflows |-> total_workflows(S),
                 unique_domains |-> unique_domains(S),
                 avg_steps |-> avg_steps(S, total_workflows(S)),
                 popular_domains |-> popular_domains(S),
                 recent_activity |-> recent_activity(S)])

(***************************************************************************)
(* get_ai_suggestions                                                      *)
(***************************************************************************)
UpperCase == <<"A", "B", "C", "D", "E", "F", "G", "H", "I", "J", "K", "L", "M",
               "N", "O", "P", "Q", "R", "S", "T", "U", "V", "W", "X", "Y", "Z">>

LowerCase == <<"a", "b", "c", "d", "e", "f", "g", "h", "i", "j", "k", "l", "m",
               "n", "o", "p", "q", "r", "s", "t", "u", "v", "w", "x", "y", "z">>

LowerChar(c) ==
    IF \E i \in DOMAIN UpperCase : UpperCase[i] = c
    THEN LowerCase[CHOOSE i \in DOMAIN UpperCase : UpperCase[i] = c]
    ELSE c

\* line 157: field_selector.lower()
Lower(text) == [i \in DOMAIN text |-> LowerChar(text[i])]

\* term in text
Contains(text, term) ==
    \E i \in 1..(Len(text) - Len(term) + 1) :
        SubSeq(text, i, i + Len(term) - 1) = term

\* any(term in text for term in terms)
AnyTermIn(text, terms) == \E term \in terms : Contains(text, term)

NameTerms == {<<"n", "a", "m", "e">>, <<"a", "p", "p", "l", "i", "c", "a", "n", "t">>, <<"o", "w", "n", "e", "r">>}

AddressTerms == {<<"a", "d", "d", "r", "e", "s", "s">>, <<"s", "t", "r", "e", "e", "t">>, <<"p", "r", "o", "p", "e", "r", "t", "y">>}

PhoneTerms == {<<"p", "h", "o", "n", "e">>, <<"t", "e", "l">>, <<"m", "o", "b", "i", "l", "e">>}

EmailTerms == {<<"e", "m", "a", "i", "l">>, <<"m", "a", "i", "l">>}

PermitTerms == {<<"p", "e", "r", "m", "i", "t">>, <<"t", "y", "p", "e">>, <<"c", "a", "t", "e", "g", "o", "r", "y">>}

field_type_PermitFirst(selector_lower) ==
    IF AnyTermIn(selector_lower, PermitTerms) THEN "permit"
    ELSE IF AnyTermIn(selector_lower, NameTerms) THEN "name"
    ELSE IF AnyTermIn(selector_lower, AddressTerms) THEN "address"
    ELSE IF AnyTermIn(selector_lower, PhoneTerms) THEN "phone"
    ELSE IF AnyTermIn(selector_lower, EmailTerms) THEN "email"
    ELSE "other"

\* lines 156-168: the if/elif chain
field_type(selector_lower) ==
    IF AnyTermIn(selector_lower, NameTerms) THEN "name"
    ELSE IF AnyTermIn(selector_lower, AddressTerms) THEN "address"
    ELSE IF AnyTermIn(selector_lower, PhoneTerms) THEN "phone"
    ELSE IF AnyTermIn(selector_lower, EmailTerms) THEN "email"
    ELSE IF AnyTermIn(selector_lower, PermitTerms) THEN "permit"
    ELSE "other"

\* lines 147-153
suggestions_map ==
    [address |-> <<"123 Main Street", "456 Oak Avenue", "789 Pine Boulevard">>,
     name |-> <<"John Smith", "Jane Doe", "Robert Johnson">>,
     phone |-> <<"(555) 123-4567", "555-987-6543", "(305) 555-0123">>,
     email |-> <<"user@example.com", "contact@domain.com">>,
     permit |-> <<"Building Permit", "Electrical Permit", "Plumbing Permit">>]

\* lines 141-182; data is the tagged JSON body, and data.get on a body that
\* is no dict raises AttributeError
get_ai_suggestions(data) ==
    IF data.t # "dict"
    THEN Error(500, [error |-> "Failed to get suggestions", suggestions |-> <<>>])
    ELSE LET field_selector == Get(data.v, "field_selector", <<>>)
             ft == field_type(Lower(field_selector))
         IN  Ok([suggestions |-> Get(suggestions_map, ft, <<>>),
                 confidence |-> "0.85",
                 source |-> "pattern_analysis",
                 field_type |-> ft])

(***************************************************************************)
(* get_workflows                                                           *)
(***************************************************************************)
\* lines 188-193
get_workflows(storage) ==
    Ok([success |-> TRUE, workflows |-> storage, count |-> Len(storage)])

(***************************************************************************)
(* Requests the clients send.                                              *)
(***************************************************************************)
DocA ==
    [name |-> "Permit A", steps |-> <<"click", "type">>,
     metadata |-> JDict([domain |-> "a.gov"])]

DocB == [steps |-> <<"click">>, metadata |-> JDict([domain |-> "b.gov"])]

DocBare == [steps |-> <<"click", "type", "submit">>]

DocNoDomain == [name |-> "No domain", steps |-> <<>>, metadata |-> JDict([url |-> "/form"])]

DocUnknown ==
    [name |-> "Explicit", metadata |-> JDict([domain |-> "unknown"]),
     id |-> "99", saved_at |-> "1999-01-01T00:00:00", source |-> "caller"]

DocNullMetadata == [name |-> "Null metadata", metadata |-> JNull]

Documents == {DocA, DocB, DocBare, DocNoDomain, DocUnknown, DocNullMetadata}

\* the JSON bodies of POST /api/workflows/save
SaveBodies ==
    {JNull, JDict(EmptyDict), JDict([source |-> "api"]),
     JDict([workflow |-> JStr("text")])}
    \cup {JDict([workflow |-> JDict(d)]) : d \in Documents}
    \cup {JDict([workflow |-> JDict(d), source |-> "api"]) : d \in {DocA, DocUnknown}}

\* the query strings of GET /api/workflows/analytics
AnalyticsArgs ==
    {EmptyDict, [domain |-> ""], [domain |-> "a.gov"], [domain |-> "b.gov"],
     [domain |-> "unknown"]}

Pieces ==
    {<<"n", "a", "m", "e">>,
     <<"O", "w", "n", "e", "r">>,
     <<"a", "p", "p", "l", "i", "c", "a", "n", "t">>,
     <<"A", "d", "d", "r", "e", "s", "s">>,
     <<"s", "t", "r", "e", "e", "t">>,
     <<"p", "r", "o", "p", "e", "r", "t", "y">>,
     <<"p", "h", "o", "n", "e">>,
     <<"t", "e", "l">>,
     <<"m", "o", "b", "i", "l", "e">>,
     <<"e", "m", "a", "i", "l">>,
     <<"m", "a", "i", "l">>,
     <<"P", "E", "R", "M", "I", "T">>,
     <<"t", "y", "p", "e">>,
     <<"c", "a", "t", "e", "g", "o", "r", "y">>,
     <<"x", "y", "z">>,
     <<"#">>,
     <<"1">>,
     <<"h", "o">>,
     <<"n", "a">>,
     <<"m", "e">>,
     <<"e">>,
     <<"p", "e", "r">>,
     <<"m", "i", "t">>,
     <<"t", "x", "t">>}

RECURSIVE SelectorsUpTo(_)
\* the field selectors made of at most n pieces
SelectorsUpTo(n) ==
    IF n = 0 THEN {<<>>}
    ELSE LET shorter == SelectorsUpTo(n - 1)
         IN  shorter \cup {p \o q : p \in shorter, q \in Pieces}

\* the JSON bodies of POST /api/ai/suggestions with the given selectors
SuggestionBodies(selectors) ==
    {JNull, JDict([domain |-> "a.gov"])}
    \cup {JDict([field_selector |-> sel]) : sel \in selectors}

SampleSelectors ==
    {<<>>, <<"t", "x", "t", "A", "d", "d", "r", "e", "s", "s", "1">>,
     <<"x", "y", "z">>}

(***************************************************************************)
(* The handlers, each run from its first line to its return with no other  *)
(* handler running in between.                                             *)
(***************************************************************************)
Idle == [pc |-> "idle"]

Init ==
    /\ workflows_storage = <<>>
    /\ clock = 0
    /\ request = [op |-> "none"]
    /\ response = [status |-> 0]
    /\ threads = [t \in 1..NThreads |-> Idle]

SaveWorkflow(data) ==
    LET r == save_workflow(workflows_storage, clock, data)
    IN  /\ workflows_storage' = r.storage
        /\ clock' = r.clock
        /\ request' = [op |-> "save", data |-> data]
        /\ response' = r.response
        /\ UNCHANGED threads

GetAnalytics(args) ==
    /\ request' = [op |-> "analytics", args |-> args]
    /\ response' = get_analytics(workflows_storage, args)
    /\ UNCHANGED <<workflows_storage, clock, threads>>

GetAiSuggestions(data) ==
    /\ request' = [op |-> "suggestions", data |-> data]
    /\ response' = get_ai_suggestions(data)
    /\ UNCHANGED <<workflows_storage, clock, threads>>

GetWorkflows ==
    /\ request' = [op |-> "list"]
    /\ response' = get_workflows(workflows_storage)
    /\ UNCHANGED <<workflows_storage, clock, threads>>

Next ==
    \/ \E data \in SaveBodies :
        Len(workflows_storage) < MaxStore /\ SaveWorkflow(data)
    \/ \E args \in AnalyticsArgs : GetAnalytics(args)
    \/ \E data \in SuggestionBodies(SampleSelectors) : GetAiSuggestions(data)
    \/ GetWorkflows

Spec == Init /\ [][Next]_vars

(***************************************************************************)
(* The handlers on several threads.  The development server (app.run,      *)
(* line 220) answers each request on a thread of its own and the handlers  *)
(* take no lock, so a thread can be preempted between any two accesses to  *)
(* workflows_storage.  Each step below is the code from one such access up *)
(* to the next; what lies between touches only the thread's locals.  A     *)
(* loop over the list, which only grows at its end, sees the elements the  *)
(* list holds when the loop ends, so a loop is one access.                 *)
(***************************************************************************)
ConcSaveBodies ==
    {JNull, JDict([workflow |-> JDict(DocA)]), JDict([workflow |-> JDict(DocBare)]),
     JDict([workflow |-> JDict(DocNullMetadata)])}

\* the workflows in the list or about to be appended to it
Pending == Len(workflows_storage) + Cardinality({t \in 1..NThreads : threads[t].pc = "append"})

ConcAnalyticsArgs == {EmptyDict, [domain |-> "a.gov"]}

Done(t, resp) ==
    [pc |-> "done", op |-> threads[t].op, input |-> threads[t].input, response |-> resp]

\* lines 47-57: the request is read and checked, and workflow_data is
\* stamped with the id computed from the length the list has now
ConcSaveRead(t, data) ==
    /\ threads[t].pc = "idle"
    /\ IF InvalidRequestData(data)
       THEN /\ threads' = [threads EXCEPT ![t] =
                    [pc |-> "done", op |-> "save", input |-> data,
                     response |-> Error(400, [error |-> "Invalid request data"])]]
            /\ UNCHANGED clock
       ELSE IF ItemAssignmentRaises(data)
       THEN /\ threads' = [threads EXCEPT ![t] =
                    [pc |-> "done", op |-> "save", input |-> data,
                     response |-> Error(500, [error |-> "Failed to save workflow",
                                              details |-> "TypeError"])]]
            /\ UNCHANGED clock
       ELSE /\ threads' = [threads EXCEPT ![t] =
                    [pc |-> "append", op |-> "save", input |-> data,
                     workflow_data |-> Stamp(data, AssignId(workflows_storage), clock)]]
            /\ clock' = clock + 1
    /\ UNCHANGED <<workflows_storage, request, response>>

\* lines 60-76
ConcSaveAppend(t) ==
    /\ threads[t].pc = "append"
    /\ workflows_storage' = StoreAppend(workflows_storage, threads[t].workflow_data)
    /\ threads' = [threads EXCEPT ![t] = Done(t, SaveRespond(threads[t].workflow_data))]
    /\ UNCHANGED <<clock, request, response>>

\* the list the name filtered_workflows refers to: workflows_storage itself
\* (line 86 copies nothing) or the list the comprehension built
Deref(filtered) ==
    IF filtered.alias THEN workflows_storage ELSE filtered.list

\* lines 83-89
ConcAnalyticsFilter(t, args) ==
    /\ threads[t].pc = "idle"
    /\ threads' = [threads EXCEPT ![t] =
        IF HasDomainFilter(args) /\ AnyMetadataRaises(workflows_storage)
        THEN [pc |-> "done", op |-> "analytics", input |-> args,
              response |-> AnalyticsError("AttributeError")]
        ELSE [pc |-> "total", op |-> "analytics", input |-> args,
              filtered |-> IF HasDomainFilter(args)
                           THEN [alias |-> FALSE,
                                 list |-> filtered_workflows(workflows_storage, args)]
                           ELSE [alias |-> TRUE, list |-> <<>>]]]
    /\ UNCHANGED <<workflows_storage, clock, request, response>>

\* line 92
ConcAnalyticsTotal(t) ==
    /\ threads[t].pc = "total"
    /\ threads' = [threads EXCEPT ![t] =
        [pc |-> "unique", op |-> @.op, input |-> @.input, filtered |-> @.filtered,
         total_workflows |-> total_workflows(Deref(@.filtered))]]
    /\ UNCHANGED <<workflows_storage, clock, request, response>>

\* lines 93-94
ConcAnalyticsUnique(t) ==
    /\ threads[t].pc = "unique"
    /\ LET S == Deref(threads[t].filtered)
       IN  threads' = [threads EXCEPT ![t] =
            IF AnyMetadataRaises(S) THEN Done(t, AnalyticsError("AttributeError"))
            ELSE [pc |-> "avg", op |-> @.op, input |-> @.input, filtered |-> @.filtered,
                  total_workflows |-> @.total_workflows,
                  unique_domains |-> unique_domains(S)]]
    /\ UNCHANGED <<workflows_storage, clock, request, response>>

\* lines 96-99
ConcAnalyticsAvg(t) ==
    /\ threads[t].pc = "avg"
    /\ LET S == Deref(threads[t].filtered)
       IN  threads' = [threads EXCEPT ![t] =
            IF AvgRaises(S, @.total_workflows)
            THEN Done(t, AnalyticsError("ZeroDivisionError"))
            ELSE [pc |-> "popular", op |-> @.op, input |-> @.input,
                  filtered |-> @.filtered,
                  total_workflows |-> @.total_workflows,
                  unique_domains |-> @.unique_domains,
                  avg_steps |-> avg_steps(S, @.total_workflows)]]
    /\ UNCHANGED <<workflows_storage, clock, request, response>>

\* lines 101-110
ConcAnalyticsPopular(t) ==
    /\ threads[t].pc = "popular"
    /\ LET S == Deref(threads[t].filtered)
       IN  threads' = [threads EXCEPT ![t] =
            IF AnyMetadataRaises(S) THEN Done(t, AnalyticsError("AttributeError"))
            ELSE [pc |-> "recent", op |-> @.op, input |-> @.input,
                  filtered |-> @.filtered,
                  total_workflows |-> @.total_workflows,
                  unique_domains |-> @.unique_domains,
                  avg_steps |-> @.avg_steps,
                  popular_domains |-> popular_domains(S)]]
    /\ UNCHANGED <<workflows_storage, clock, request, response>>

\* lines 112-135
ConcAnalyticsRecent(t) ==
    /\ threads[t].pc = "recent"
    /\ LET S == Deref(threads[t].filtered)
       IN  threads' = [threads EXCEPT ![t] =
            IF AnyMetadataRaises(S) THEN Done(t, AnalyticsError("AttributeError"))
            ELSE Done(t, Ok([total_workflows |-> @.total_workflows,
                             unique_domains |-> @.unique_domains,
                             avg_steps |-> @.avg_steps,
                             popular_domains |-> @.popular_domains,
                             recent_activity |-> recent_activity(S)]))]
    /\ UNCHANGED <<workflows_storage, clock, request, response>>

\* the response is sent and the thread takes the next request
ConcReturn(t) ==
    /\ threads[t].pc = "done"
    /\ threads' = [threads EXCEPT ![t] = Idle]
    /\ UNCHANGED <<workflows_storage, clock, request, response>>

NextConc ==
    \E t \in 1..NThreads :
        \/ \E data \in ConcSaveBodies : Pending < MaxConcStore /\ ConcSaveRead(t, data)
        \/ ConcReturn(t)
        \/ ConcSaveAppend(t)
        \/ \E args \in ConcAnalyticsArgs : ConcAnalyticsFilter(t, args)
        \/ ConcAnalyticsTotal(t)
        \/ ConcAnalyticsUnique(t)
        \/ ConcAnalyticsAvg(t)
        \/ ConcAnalyticsPopular(t)
        \/ ConcAnalyticsRecent(t)

SpecConc == Init /\ [][NextConc]_vars

(***************************************************************************)
(* Analytics over a long store: more workflows than recent_activity shows. *)
(***************************************************************************)
RecentSaveBodies ==
    {JDict([workflow |-> JDict(DocA)]), JDict([workflow |-> JDict(DocBare)])}

RecentAnalyticsArgs == {EmptyDict, [domain |-> "a.gov"]}

NextRecent ==
    \/ \E data \in RecentSaveBodies :
        Len(workflows_storage) < MaxRecentStore /\ SaveWorkflow(data)
    \/ \E args \in RecentAnalyticsArgs : GetAnalytics(args)

SpecRecent == Init /\ [][NextRecent]_vars

(***************************************************************************)
(* Analytics over many domains: more domains than popular_domains shows.   *)
(* The handler compares domains only for equality (lines 104-105), so a    *)
(* store whose domains first appear in another order behaves as this one   *)
(* with the domains renamed: the clients below introduce the domains in    *)
(* one fixed order.  The second document has no metadata and counts under  *)
(* "unknown".                                                              *)
(***************************************************************************)
DomainDoc(d) == [steps |-> <<"click">>, metadata |-> JDict([domain |-> d])]

PopularDocs ==
    <<DomainDoc("a.gov"), DocBare, DomainDoc("b.gov"), DomainDoc("c.gov"),
      DomainDoc("d.gov"), DomainDoc("e.gov"), DomainDoc("f.gov")>>

\* the documents of the domains already stored, and the first one of a new domain
PopularSaveBodies(storage) ==
    LET seen == {i \in DOMAIN PopularDocs :
                    \E j \in DOMAIN storage :
                        DomainOr(storage[j], "unknown") = DomainOr(PopularDocs[i], "unknown")}
        offered == {i \in DOMAIN PopularDocs : i <= Cardinality(seen) + 1}
    IN  {JDict([workflow |-> JDict(PopularDocs[i])]) : i \in offered}

PopularAnalyticsArgs == {EmptyDict, [domain |-> "b.gov"]}

NextPopular ==
    \/ \E data \in PopularSaveBodies(workflows_storage) :
        Len(workflows_storage) < MaxPopularStore /\ SaveWorkflow(data)
    \/ \E args \in PopularAnalyticsArgs : GetAnalytics(args)

SpecPopular == Init /\ [][NextPopular]_vars

(***************************************************************************)
(* The classifier on every selector of at most MaxPieces pieces: each run  *)
(* starts with one request waiting and answers it.                         *)
(***************************************************************************)
InitClassify ==
    /\ workflows_storage = <<>>
    /\ clock = 0
    /\ request \in {[op |-> "suggestions", data |-> data] :
                        data \in SuggestionBodies(SelectorsUpTo(MaxPieces))}
    /\ response = [status |-> 0]
    /\ threads = [t \in 1..NThreads |-> Idle]

NextClassify == response.status = 0 /\ GetAiSuggestions(request.data)

SpecClassify == InitClassify /\ [][NextClassify]_vars

(***************************************************************************)
(* Properties.                                                             *)
(***************************************************************************)
Digits == <<"0", "1", "2", "3", "4", "5", "6", "7", "8", "9">>

RECURSIVE Numeral(_)
\* the decimal numeral of a natural number
Numeral(n) ==
    IF n < 10 THEN Digits[n + 1]
    ELSE Numeral(n \div 10) \o Digits[(n % 10) + 1]

Last(seq) == seq[Len(seq)]

IsSave == request.op = "save"

IsAnalytics == request.op = "analytics"

\* C1: when the save handlers run one after another, the workflow at
\* position k of the store carries the id "k" (no duplicate, no gap), and a
\* successful save returns the id of the position it filled, so the k-th of
\* k successful saves returns "k".
C1_SequentialIdsDense ==
    /\ \A i \in DOMAIN workflows_storage : workflows_storage[i]["id"] = Numeral(i)
    /\ (IsSave /\ response.status = 200) =>
            /\ workflows_storage # <<>>
            /\ response.body.workflow_id = Numeral(Len(workflows_storage))

C1_Witness ==
    /\ IsSave /\ response.status = 200
    /\ Len(workflows_storage) = 3
    /\ \A i \in DOMAIN workflows_storage : ~MetadataRaises(workflows_storage[i])
    /\ response.body.workflow_id = "3"

\* C2: under every interleaving of the save handlers, no two stored
\* workflows carry the same id and no id in 1..N is skipped.
C2_ConcurrentIdsDense ==
    \A i \in DOMAIN workflows_storage : workflows_storage[i]["id"] = Numeral(i)

\* C3: an analytics response computed while saves run equals the analytics
\* of the store as it stood at one moment (the store only grows, so its
\* past contents are its prefixes): no field comes from other contents than
\* the rest.
C3_AnalyticsSnapshot ==
    \A t \in 1..NThreads :
        (threads[t].pc = "done" /\ threads[t].op = "analytics") =>
            \E k \in 0..Len(workflows_storage) :
                threads[t].response =
                    get_analytics(SubSeq(workflows_storage, 1, k), threads[t].input)

\* C4: a save whose body is empty or has no workflow key is answered 400,
\* a save answered with an error leaves the store as it was, and only a
\* save answered with success adds an entry.
C4_NoPartialSuccess ==
    [][request'.op = "save" =>
        /\ InvalidRequestData(request'.data) => response'.status = 400
        /\ response'.status # 200 => workflows_storage' = workflows_storage
        /\ workflows_storage' # workflows_storage => response'.status = 200]_vars

\* the workflows of the store whose domain is d, a workflow without
\* metadata or without a domain counting as "unknown"
OfDomain(storage, d) ==
    SelectSeq(storage, LAMBDA w : DomainOr(w, "unknown") = d)

\* C5: analytics with a domain filter d covers exactly the stored workflows
\* whose domain is d, in insertion order, where a workflow with no metadata
\* or no domain has the domain "unknown".
C5_FilterDefaultsUnknown ==
    (IsAnalytics /\ HasDomainFilter(request.args) /\ response.status = 200) =>
        LET S == OfDomain(workflows_storage, request.args["domain"])
        IN  /\ response.body.total_workflows = Len(S)
            /\ response.body.recent_activity = [i \in DOMAIN S |-> Projection(S[i])]

\* C6: the store is append-only.  Every step keeps the workflows already
\* stored, at their positions and unchanged, and adds at most one; a
\* successful save adds exactly one; analytics, suggestions and list leave
\* the store as it is, and list returns the store as it is.
C6_AppendOnly ==
    [][/\ Len(workflows_storage') >= Len(workflows_storage)
       /\ Len(workflows_storage') <= Len(workflows_storage) + 1
       /\ SubSeq(workflows_storage', 1, Len(workflows_storage)) = workflows_storage
       /\ (request'.op = "save" /\ response'.status = 200) =>
                Len(workflows_storage') = Len(workflows_storage) + 1
       /\ request'.op \in {"analytics", "suggestions", "list"} =>
                workflows_storage' = workflows_storage
       /\ request'.op = "list" =>
                /\ response'.body.workflows = workflows_storage
                /\ response'.body.count = Len(workflows_storage)]_vars

C6_Witness ==
    /\ request.op = "list"
    /\ Len(workflows_storage) = MaxStore
    /\ response.body.workflows = workflows_storage

\* C7: recent_activity has min(10, total_workflows) entries, the
\* projections of the last min(10, |S|) workflows of the filtered list S in
\* insertion order, with and without a domain filter.
C7_RecentActivity ==
    (IsAnalytics /\ response.status = 200) =>
        LET S == filtered_workflows(workflows_storage, request.args)
            recent == response.body.recent_activity
            m == IF Len(S) < RecentLimit THEN Len(S) ELSE RecentLimit
        IN  /\ response.body.total_workflows = Len(S)
            /\ Len(recent) = m
            /\ \A j \in 1..m : recent[j] = Projection(S[Len(S) - m + j])

C7_Witness ==
    /\ IsAnalytics /\ response.status = 200
    /\ HasDomainFilter(request.args)
    /\ response.body.total_workflows > RecentLimit
    /\ Len(workflows_storage) > response.body.total_workflows
    /\ Len(response.body.recent_activity) = RecentLimit

\* the domains of S, a workflow without one counting as "unknown"
DomainsOf(S) == {DomainOr(S[i], "unknown") : i \in DOMAIN S}

\* the number of workflows of S with domain d
CountOf(S, d) == Cardinality({i \in DOMAIN S : DomainOr(S[i], "unknown") = d})

\* the position in S of the first workflow with domain d
FirstOf(S, d) ==
    CHOOSE i \in DOMAIN S :
        /\ DomainOr(S[i], "unknown") = d
        /\ \A j \in 1..(i - 1) : DomainOr(S[j], "unknown") # d

\* C8: popular_domains has at most 5 entries; each count is the number of
\* workflows of S with that domain; counts descend; domains of equal count
\* stand in the order in which S first shows them; and no domain left out
\* has a higher count than one that is in.
C8_PopularDomains ==
    (IsAnalytics /\ response.status = 200) =>
        LET S == filtered_workflows(workflows_storage, request.args)
            popular == response.body.popular_domains
            shown == {popular[j].domain : j \in DOMAIN popular}
        IN  /\ Len(popular) <= PopularLimit
            /\ \A j \in DOMAIN popular :
                    /\ popular[j].domain \in DomainsOf(S)
                    /\ popular[j].count = CountOf(S, popular[j].domain)
            /\ \A j, k \in DOMAIN popular :
                    j < k =>
                        /\ popular[j].count >= popular[k].count
                        /\ popular[j].count = popular[k].count =>
                                FirstOf(S, popular[j].domain) < FirstOf(S, popular[k].domain)
            /\ \A d \in DomainsOf(S) \ shown :
                    \A j \in DOMAIN popular : CountOf(S, d) <= popular[j].count

C8_Witness ==
    /\ IsAnalytics /\ response.status = 200
    /\ response.body.unique_domains > PopularLimit
    /\ Len(response.body.popular_domains) = PopularLimit
    /\ response.body.popular_domains[1].count > response.body.popular_domains[2].count
    /\ response.body.popular_domains[2].count = response.body.popular_domains[3].count
    /\ response.body.popular_domains[1].domain =
            DomainOr(Last(workflows_storage), "unknown")

StoreAssigned == {"id", "saved_at", "source"}

\* C9: a successful save followed by list: the last workflow listed has the
\* submitted fields unchanged, and id, saved_at and source set, the id and
\* the time being the store's own and the source the body's source or
\* "chrome_extension".
C9_RoundTrip ==
    [][(IsSave /\ response.status = 200 /\ request'.op = "list") =>
        LET body == request.data.v
            submitted == body["workflow"].v
            listed == Last(response'.body.workflows)
        IN  /\ DOMAIN listed = DOMAIN submitted \cup StoreAssigned
            /\ \A k \in DOMAIN submitted \ StoreAssigned : listed[k] = submitted[k]
            /\ listed["id"] = Numeral(response'.body.count)
            /\ listed["id"] = response.body.workflow_id
            /\ listed["saved_at"] = isoformat(clock - 1)
            /\ listed["source"] =
                    IF "source" \in DOMAIN body THEN body["source"] ELSE "chrome_extension"]_vars

C9_Witness ==
    /\ request.op = "list"
    /\ response.body.count = 2
    /\ Last(response.body.workflows) =
            [name |-> "Explicit", metadata |-> JDict([domain |-> "unknown"]),
             id |-> "2", saved_at |-> isoformat(1), source |-> "api"]

Categories == {"name", "address", "phone", "email", "permit", "other"}

\* the keyword sets in their order of priority
Priority ==
    <<[category |-> "name", terms |-> NameTerms],
      [category |-> "address", terms |-> AddressTerms],
      [category |-> "phone", terms |-> PhoneTerms],
      [category |-> "email", terms |-> EmailTerms],
      [category |-> "permit", terms |-> PermitTerms]>>

\* the places in Priority of the sets with a keyword inside text
Matching(text) ==
    {i \in DOMAIN Priority : \E term \in Priority[i].terms : Contains(text, term)}

\* C10: the field type is one of the six categories: that of the first
\* keyword set, in the order name, address, phone, email, permit, with a
\* keyword inside the lower-cased selector, and other exactly when no set
\* has one; the suggestions are the table's row of that category, none for
\* other.
C10_Classify ==
    (request.op = "suggestions" /\ response.status = 200) =>
        LET text == Lower(Get(request.data.v, "field_selector", <<>>))
            hits == Matching(text)
            ft == response.body.field_type
        IN  /\ ft \in Categories
            /\ ft = "other" <=> hits = {}
            /\ hits # {} =>
                    ft = Priority[CHOOSE i \in hits : \A j \in hits : i <= j].category
            /\ response.body.suggestions =
                    IF ft = "other" THEN <<>> ELSE suggestions_map[ft]

C10_Witness ==
    /\ request.op = "suggestions" /\ response.status = 200
    /\ request.data.v = [field_selector |-> <<"P", "E", "R", "M", "I", "T", "n", "a", "m", "e">>]
    /\ response.body.field_type = "name"
    /\ response.body.suggestions = <<"John Smith", "Jane Doe", "Robert Johnson">>

====
